---------------------------- MODULE Spec2Model ----------------------------
(***************************************************************************)
(* Model of the array-backed binary heaps (MinHeap, MaxHeap) and of the    *)
(* DynamicArray built on a fixed-capacity block.                           *)
(*                                                                         *)
(* Python lists are 0-indexed; a list is modelled as a TLA+ sequence and   *)
(* At(array, i) reads the element Python calls array[i].                   *)
(***************************************************************************)
EXTENDS Integers, Sequences, FiniteSets, Bags, TLC

(***************************************************************************)
(* Bounds of the model.                                                    *)
(***************************************************************************)
\* longest array handed to a heap constructor
MaxInput == 4
\* push() is explored while the heap holds fewer than MaxLen elements
MaxLen == 5
\* push() calls explored per heap object
MaxPush == 2
\* pop() calls on an empty heap explored per heap object
MaxEmptyPop == 1

\* a DynamicArray is explored while it holds fewer than MaxArrayLen elements
MaxArrayLen == 5

\* the integers stored in the heaps (those of the __main__ tests)
Values == {5, 10, 11, 12, 100}

RECURSIVE SeqsUpTo(_, _)
SeqsUpTo(S, n) ==
    IF n = 0 THEN {<<>>}
    ELSE LET shorter == SeqsUpTo(S, n - 1)
         IN  shorter \cup {Append(s, x) : s \in {t \in shorter : Len(t) = n - 1}, x \in S}

Inputs == SeqsUpTo(Values, MaxInput)

\* the objects stored in a DynamicArray
Objects == {"a", "b", "c"}
\* a slot of the raw ctypes block that was never assigned (a NULL PyObject pointer)
NULL == "NULL"
\* Python's None
None == "None"

VARIABLES
    kind,       \* class of the heap object: "none" before construction, "MinHeap", "MaxHeap"
    heap,       \* self.min_heap / self.max_heap
    lastOp,     \* the call that returned last: "none", "init", "peak", "push", "pop"
    lastArg,    \* its argument: <<array>> for init, <<element>> for push, <<>> otherwise
    result,     \* its outcome: [exc |-> "" or the exception raised, val |-> <<v>> or <<>> for None]
    swaps,      \* number of _swap_element calls it made inside the sift routines
    sinks,      \* number of _sink_down calls it made
    iterations, \* the loop iterations of the sift routines it ran, in order
    input,      \* history: the constructor's array, kept while no push() was called
    popped,     \* history: values returned by pop() since construction, kept while no push() was called
    size0,      \* history: len of the constructor's array
    pushes,     \* history: number of push() calls
    pops,       \* history: number of pop() calls
    emptyPops,  \* history: number of pop() calls made on an empty heap
    stored,     \* history: bag of the constructor's elements, plus those pushed, minus those pop() returned
    da_n,        \* DynamicArray._n
    da_capacity, \* DynamicArray._capacity
    da_array,    \* DynamicArray._array: the raw block, a sequence of da_capacity slots
    da_op,       \* the DynamicArray call that returned last, as <<name, arguments...>>
    da_result,   \* its outcome, as result above
    da_resized,  \* whether it called _resize
    model        \* history: the abstract list the same successful calls were applied to

heapVars == <<kind, heap, lastOp, lastArg, result, swaps, sinks, iterations,
              input, popped, size0, pushes, pops, emptyPops, stored>>

daVars == <<da_n, da_capacity, da_array, da_op, da_result, da_resized, model>>

vars == <<heapVars, daVars>>

(***************************************************************************)
(* Python list primitives.                                                 *)
(***************************************************************************)
\* the position of Python index i in the sequence; a negative i counts from the end
Pos(array, i) == IF i < 0 THEN Len(array) + i + 1 ELSE i + 1

At(array, i) == array[Pos(array, i)]

\* variant: array[index_a] = array[index_b] alone, the value at index_a is lost
swap_element_overwrite(array, index_a, index_b) ==
    [array EXCEPT ![Pos(array, index_a)] = At(array, index_b)]

swap_element(array, index_a, index_b) ==
    [array EXCEPT ![Pos(array, index_a)] = At(array, index_b),
                  ![Pos(array, index_b)] = At(array, index_a)]

\* list.pop(): the list without its last element
DropLast(array) == SubSeq(array, 1, Len(array) - 1)

\* the bag of the elements of a list
RECURSIVE BagOf(_)
BagOf(array) ==
    IF array = <<>> THEN EmptyBag
    ELSE BagOf(DropLast(array)) (+) SetToBag({array[Len(array)]})

Returned(v) == [exc |-> "", val |-> <<v>>]
ReturnedNone == [exc |-> "", val |-> <<>>]
Raised(e) == [exc |-> e, val |-> <<>>]

(***************************************************************************)
(* The sift routines work on a record [array, swaps, calls, log]: the      *)
(* list, the number of _swap_element calls made, the number of             *)
(* _sink_down/_sink_up calls begun, and one entry per loop iteration.      *)
(***************************************************************************)
Fresh(array) == [array |-> array, swaps |-> 0, calls |-> 0, log |-> <<>>]

\* entering _sink_down / _sink_up
Called(s) == [s EXCEPT !.calls = @ + 1]

\* self._swap_element(array, index_a, index_b)
Swapped(s, index_a, index_b) ==
    [s EXCEPT !.array = swap_element(@, index_a, index_b), !.swaps = @ + 1]

Logged(s, entry) == [s EXCEPT !.log = Append(@, entry)]

\* one execution of the body of _sink_down's while loop: the indices it computed,
\* the indices at which it read the list, and whether it swapped (else it breaks).
\* array[right_child_index] is read only when right_child_index != -1.
SinkDownEntry(s, curr, left, right, target, last, swap) ==
    [fn |-> "sink_down", call |-> s.calls, len |-> Len(s.array),
     curr |-> curr, left |-> left, right |-> right,
     parent |-> -1, target |-> target, last |-> last,
     reads |-> {left, target, curr} \cup (IF right # -1 THEN {right} ELSE {}),
     swapped |-> swap]

\* one evaluation of _sink_up's while condition, and the swap when it holds.
\* "curr_index > 0 and ..." reads the list only when curr_index > 0 (indexed is TRUE).
SinkUpEntry(s, curr, parent, indexed, swap) ==
    [fn |-> "sink_up", call |-> s.calls, len |-> Len(s.array),
     curr |-> curr, left |-> -1, right |-> -1,
     parent |-> parent, target |-> parent, last |-> Len(s.array) - 1,
     reads |-> IF indexed THEN {parent, curr} ELSE {},
     swapped |-> swap]

(***************************************************************************)
(* MinHeap (min_heap.py).                                                  *)
(***************************************************************************)
RECURSIVE MinHeap_sink_down_loop(_, _, _, _)
\* variant: the child is swapped up when it merely equals the current element (<= for <)
MinHeap_sink_down_loop_swap_equal(s, curr_index, left_child_index, last_index) ==
    IF left_child_index <= last_index
    THEN LET array == s.array
             right_child_index ==
                 IF left_child_index < last_index THEN 2 * curr_index + 2 ELSE -1
             index_to_swap ==
                 IF right_child_index # -1
                    /\ At(array, right_child_index) < At(array, left_child_index)
                 THEN right_child_index
                 ELSE left_child_index
             swap == At(array, index_to_swap) <= At(array, curr_index)
             t == Logged(s, SinkDownEntry(s, curr_index, left_child_index,
                                          right_child_index, index_to_swap,
                                          last_index, swap))
         IN  IF swap
             THEN MinHeap_sink_down_loop(Swapped(t, index_to_swap, curr_index),
                      index_to_swap, 2 * index_to_swap + 1, last_index)
             ELSE t
    ELSE s

\* variant: "curr_index = index_to_swap" is missing after the swap
MinHeap_sink_down_loop_stale_curr(s, curr_index, left_child_index, last_index) ==
    IF left_child_index <= last_index
    THEN LET array == s.array
             right_child_index ==
                 IF left_child_index < last_index THEN 2 * curr_index + 2 ELSE -1
             index_to_swap ==
                 IF right_child_index # -1
                    /\ At(array, right_child_index) < At(array, left_child_index)
                 THEN right_child_index
                 ELSE left_child_index
             swap == At(array, index_to_swap) < At(array, curr_index)
             t == Logged(s, SinkDownEntry(s, curr_index, left_child_index,
                                          right_child_index, index_to_swap,
                                          last_index, swap))
         IN  IF swap
             THEN MinHeap_sink_down_loop(Swapped(t, index_to_swap, curr_index),
                      curr_index, 2 * index_to_swap + 1, last_index)
             ELSE t
    ELSE s

MinHeap_sink_down_loop(s, curr_index, left_child_index, last_index) ==
    IF left_child_index <= last_index
    THEN LET array == s.array
             right_child_index ==
                 IF left_child_index < last_index THEN 2 * curr_index + 2 ELSE -1
             index_to_swap ==
                 IF right_child_index # -1
                    /\ At(array, right_child_index) < At(array, left_child_index)
                 THEN right_child_index
                 ELSE left_child_index
             swap == At(array, index_to_swap) < At(array, curr_index)
             t == Logged(s, SinkDownEntry(s, curr_index, left_child_index,
                                          right_child_index, index_to_swap,
                                          last_index, swap))
         IN  IF swap
             THEN MinHeap_sink_down_loop(Swapped(t, index_to_swap, curr_index),
                      index_to_swap, 2 * index_to_swap + 1, last_index)
             ELSE t
    ELSE s

MinHeap_sink_down(s, curr_index, last_index) ==
    MinHeap_sink_down_loop(Called(s), curr_index, 2 * curr_index + 1, last_index)

RECURSIVE MinHeap_sink_up_loop(_, _, _)
\* variant: no "curr_index > 0" in the while condition; at the root array[-1] is read,
\* which in Python is the last element
MinHeap_sink_up_loop_no_root_guard(s, curr_index, parent_index) ==
    LET swap == At(s.array, parent_index) > At(s.array, curr_index)
        t == Logged(s, SinkUpEntry(s, curr_index, parent_index, TRUE, swap))
    IN  IF swap
        THEN MinHeap_sink_up_loop(Swapped(t, parent_index, curr_index),
                 parent_index, (parent_index - 1) \div 2)
        ELSE t

MinHeap_sink_up_loop(s, curr_index, parent_index) ==
    LET swap == curr_index > 0 /\ At(s.array, parent_index) > At(s.array, curr_index)
        t == Logged(s, SinkUpEntry(s, curr_index, parent_index, curr_index > 0, swap))
    IN  IF swap
        THEN MinHeap_sink_up_loop(Swapped(t, parent_index, curr_index),
                 parent_index, (parent_index - 1) \div 2)
        ELSE t

\* variant: "if" for "while", the element rises one level at most
MinHeap_sink_up_once(s, curr_index) ==
    LET parent_index == (curr_index - 1) \div 2
        c == Called(s)
        swap == curr_index > 0 /\ At(c.array, parent_index) > At(c.array, curr_index)
        t == Logged(c, SinkUpEntry(c, curr_index, parent_index, curr_index > 0, swap))
    IN  IF swap THEN Swapped(t, parent_index, curr_index) ELSE t

MinHeap_sink_up(s, curr_index) ==
    MinHeap_sink_up_loop(Called(s), curr_index, (curr_index - 1) \div 2)

\* for curr_index in range(last_parent_index, -1, -1): _sink_down(...)
RECURSIVE MinHeap_heapify_loop(_, _)
\* variant: range(last_parent_index, 0, -1), the root is never sifted
MinHeap_heapify_loop_skip_root(h, curr_index) ==
    IF curr_index > 0
    THEN MinHeap_heapify_loop(MinHeap_sink_down(h, curr_index, Len(h.array) - 1),
                              curr_index - 1)
    ELSE h

MinHeap_heapify_loop(h, curr_index) ==
    IF curr_index >= 0
    THEN MinHeap_heapify_loop(MinHeap_sink_down(h, curr_index, Len(h.array) - 1),
                              curr_index - 1)
    ELSE h

\* variant: last_parent_index = (len(array) - 1) // 2, one index too far
MinHeap_heapify_from_last_index(array) ==
    LET last_parent_index == (Len(array) - 1) \div 2
    IN  MinHeap_heapify_loop(Fresh(array), last_parent_index)

\* the record after the loop; its array is the returned list
MinHeap_heapify(array) ==
    LET last_parent_index == (Len(array) - 2) \div 2
    IN  MinHeap_heapify_loop(Fresh(array), last_parent_index)

(***************************************************************************)
(* MaxHeap (max_heap.py).                                                  *)
(***************************************************************************)
RECURSIVE MaxHeap_sink_down_loop(_, _, _, _)
\* variant: "while left_child_index < last_index", a lone left child is never looked at
MaxHeap_sink_down_loop_miss_last(s, curr_index, left_child_index, last_index) ==
    IF left_child_index < last_index
    THEN LET array == s.array
             right_child_index == 2 * curr_index + 2
             index_to_swap ==
                 IF right_child_index # -1
                    /\ At(array, right_child_index) > At(array, left_child_index)
                 THEN right_child_index
                 ELSE left_child_index
             swap == At(array, index_to_swap) > At(array, curr_index)
             t == Logged(s, SinkDownEntry(s, curr_index, left_child_index,
                                          right_child_index, index_to_swap,
                                          last_index, swap))
         IN  IF swap
             THEN MaxHeap_sink_down_loop(Swapped(t, index_to_swap, curr_index),
                      index_to_swap, 2 * index_to_swap + 1, last_index)
             ELSE t
    ELSE s

\* variant: the right child also wins a tie with the left one (>= for >)
MaxHeap_sink_down_loop_right_on_tie(s, curr_index, left_child_index, last_index) ==
    IF left_child_index <= last_index
    THEN LET array == s.array
             right_child_index ==
                 IF left_child_index < last_index THEN 2 * curr_index + 2 ELSE -1
             index_to_swap ==
                 IF right_child_index # -1
                    /\ At(array, right_child_index) >= At(array, left_child_index)
                 THEN right_child_index
                 ELSE left_child_index
             swap == At(array, index_to_swap) > At(array, curr_index)
             t == Logged(s, SinkDownEntry(s, curr_index, left_child_index,
                                          right_child_index, index_to_swap,
                                          last_index, swap))
         IN  IF swap
             THEN MaxHeap_sink_down_loop(Swapped(t, index_to_swap, curr_index),
                      index_to_swap, 2 * index_to_swap + 1, last_index)
             ELSE t
    ELSE s

MaxHeap_sink_down_loop(s, curr_index, left_child_index, last_index) ==
    IF left_child_index <= last_index
    THEN LET array == s.array
             right_child_index ==
                 IF left_child_index < last_index THEN 2 * curr_index + 2 ELSE -1
             index_to_swap ==
                 IF right_child_index # -1
                    /\ At(array, right_child_index) > At(array, left_child_index)
                 THEN right_child_index
                 ELSE left_child_index
             swap == At(array, index_to_swap) > At(array, curr_index)
             t == Logged(s, SinkDownEntry(s, curr_index, left_child_index,
                                          right_child_index, index_to_swap,
                                          last_index, swap))
         IN  IF swap
             THEN MaxHeap_sink_down_loop(Swapped(t, index_to_swap, curr_index),
                      index_to_swap, 2 * index_to_swap + 1, last_index)
             ELSE t
    ELSE s

MaxHeap_sink_down(s, curr_index, last_index) ==
    MaxHeap_sink_down_loop(Called(s), curr_index, 2 * curr_index + 1, last_index)

RECURSIVE MaxHeap_sink_up_loop(_, _, _)
\* variant: the element is swapped up when it merely equals its parent (<= for <)
MaxHeap_sink_up_loop_swap_equal(s, curr_index, parent_index) ==
    LET swap == curr_index > 0 /\ At(s.array, parent_index) <= At(s.array, curr_index)
        t == Logged(s, SinkUpEntry(s, curr_index, parent_index, curr_index > 0, swap))
    IN  IF swap
        THEN MaxHeap_sink_up_loop(Swapped(t, parent_index, curr_index),
                 parent_index, (parent_index - 1) \div 2)
        ELSE t

MaxHeap_sink_up_loop(s, curr_index, parent_index) ==
    LET swap == curr_index > 0 /\ At(s.array, parent_index) < At(s.array, curr_index)
        t == Logged(s, SinkUpEntry(s, curr_index, parent_index, curr_index > 0, swap))
    IN  IF swap
        THEN MaxHeap_sink_up_loop(Swapped(t, parent_index, curr_index),
                 parent_index, (parent_index - 1) \div 2)
        ELSE t

\* variant: "if" for "while", the element rises one level at most
MaxHeap_sink_up_once(s, curr_index) ==
    LET parent_index == (curr_index - 1) \div 2
        c == Called(s)
        swap == curr_index > 0 /\ At(c.array, parent_index) < At(c.array, curr_index)
        t == Logged(c, SinkUpEntry(c, curr_index, parent_index, curr_index > 0, swap))
    IN  IF swap THEN Swapped(t, parent_index, curr_index) ELSE t

MaxHeap_sink_up(s, curr_index) ==
    MaxHeap_sink_up_loop(Called(s), curr_index, (curr_index - 1) \div 2)

\* for curr_index in range(last_parent_index, -1, -1): _sink_down(...)
RECURSIVE MaxHeap_heapify_loop(_, _)
MaxHeap_heapify_loop(h, curr_index) ==
    IF curr_index >= 0
    THEN MaxHeap_heapify_loop(MaxHeap_sink_down(h, curr_index, Len(h.array) - 1),
                              curr_index - 1)
    ELSE h

\* the record after the loop; its array is the returned list
MaxHeap_heapify(array) ==
    LET last_parent_index == (Len(array) - 2) \div 2
    IN  MaxHeap_heapify_loop(Fresh(array), last_parent_index)

(***************************************************************************)
(* DynamicArray (dynamic_array_using_static_array_in_python3.py).  The     *)
(* methods work on a record [n, capacity, array] of the object's fields.   *)
(***************************************************************************)
RECURSIVE Repeat(_, _)
Repeat(x, k) == IF k <= 0 THEN <<>> ELSE Append(Repeat(x, k - 1), x)

\* (new_capacity * ctypes.py_object)(): a block of unassigned slots
DynamicArray_make_array(new_capacity) == Repeat(NULL, new_capacity)

SetAt(block, i, x) == [block EXCEPT ![i + 1] = x]

\* for index in range(self._n): new_array[index] = self._array[index]
RECURSIVE DynamicArray_resize_copy(_, _, _, _)
DynamicArray_resize_copy(new_array, old_array, index, stop) ==
    IF index < stop
    THEN DynamicArray_resize_copy(SetAt(new_array, index, At(old_array, index)),
                                  old_array, index + 1, stop)
    ELSE new_array

\* variant: range(self._n - 1), the last stored element is not copied
DynamicArray_resize_drop_last(self, new_capacity) ==
    [n |-> self.n,
     capacity |-> new_capacity,
     array |-> DynamicArray_resize_copy(DynamicArray_make_array(new_capacity),
                                        self.array, 0, self.n - 1)]

DynamicArray_resize(self, new_capacity) ==
    [n |-> self.n,
     capacity |-> new_capacity,
     array |-> DynamicArray_resize_copy(DynamicArray_make_array(new_capacity),
                                        self.array, 0, self.n)]

\* for ind in range(self._n - 1, index - 1, -1): self._array[ind + 1] = self._array[ind]
RECURSIVE DynamicArray_shift_right(_, _, _)
DynamicArray_shift_right(block, ind, index) ==
    IF ind > index - 1
    THEN DynamicArray_shift_right(SetAt(block, ind + 1, At(block, ind)), ind - 1, index)
    ELSE block

\* for ind in range(index, self._n - 1): self._array[ind] = self._array[ind + 1]
RECURSIVE DynamicArray_shift_left(_, _, _)
DynamicArray_shift_left(block, ind, stop) ==
    IF ind < stop
    THEN DynamicArray_shift_left(SetAt(block, ind, At(block, ind + 1)), ind + 1, stop)
    ELSE block

\* variant: "if self._n + 1 >= self._capacity", the block grows one insert early
DynamicArray_insert_at_early_resize(self, element, index) ==
    IF 0 <= index /\ index <= self.n
    THEN LET full == self.n + 1 >= self.capacity
             grown == IF full THEN DynamicArray_resize(self, 2 * self.capacity) ELSE self
             shifted == DynamicArray_shift_right(grown.array, grown.n - 1, index)
         IN  [self |-> [n |-> grown.n + 1,
                        capacity |-> grown.capacity,
                        array |-> SetAt(shifted, index, element)],
              result |-> ReturnedNone,
              resized |-> full]
    ELSE [self |-> self, result |-> Raised("IndexError"), resized |-> FALSE]

\* variant: the block is grown before the index is checked
DynamicArray_insert_at_resize_first(self, element, index) ==
    LET full == self.n = self.capacity
        grown == IF full THEN DynamicArray_resize(self, 2 * self.capacity) ELSE self
    IN  IF 0 <= index /\ index <= self.n
        THEN LET shifted == DynamicArray_shift_right(grown.array, grown.n - 1, index)
             IN  [self |-> [n |-> grown.n + 1,
                            capacity |-> grown.capacity,
                            array |-> SetAt(shifted, index, element)],
                  result |-> ReturnedNone,
                  resized |-> full]
        ELSE [self |-> grown, result |-> Raised("IndexError"), resized |-> full]

\* [self, result, resized]: the object after the call, the outcome, whether _resize ran
DynamicArray_insert_at(self, element, index) ==
    IF 0 <= index /\ index <= self.n
    THEN LET full == self.n = self.capacity
             grown == IF full THEN DynamicArray_resize(self, 2 * self.capacity) ELSE self
             shifted == DynamicArray_shift_right(grown.array, grown.n - 1, index)
         IN  [self |-> [n |-> grown.n + 1,
                        capacity |-> grown.capacity,
                        array |-> SetAt(shifted, index, element)],
              result |-> ReturnedNone,
              resized |-> full]
    ELSE [self |-> self, result |-> Raised("IndexError"), resized |-> FALSE]

DynamicArray_append(self, element) == DynamicArray_insert_at(self, element, self.n)

DynamicArray_remove_at(self, index) ==
    IF 0 <= index /\ index < self.n
    THEN LET shifted == DynamicArray_shift_left(self.array, index, self.n - 1)
         IN  [self |-> [n |-> self.n - 1,
                        capacity |-> self.capacity,
                        array |-> SetAt(shifted, self.n - 1, None)],
              result |-> ReturnedNone,
              resized |-> FALSE]
    ELSE [self |-> self, result |-> Raised("IndexError"), resized |-> FALSE]

DynamicArray_delete(self) == DynamicArray_remove_at(self, self.n - 1)

DynamicArray_getitem(self, index) ==
    IF 0 <= index /\ index < self.n
    THEN Returned(At(self.array, index))
    ELSE Raised("IndexError")

DynamicArray_len(self) == self.n

(***************************************************************************)
(* The abstract list the DynamicArray is compared with.                    *)
(***************************************************************************)
ListInsert(list, index, element) ==
    SubSeq(list, 1, index) \o <<element>> \o SubSeq(list, index + 1, Len(list))

ListRemove(list, index) ==
    SubSeq(list, 1, index) \o SubSeq(list, index + 2, Len(list))

(***************************************************************************)
(* The state before any heap is constructed, with a DynamicArray as its    *)
(* __init__ leaves it.                                                     *)
(***************************************************************************)
Init ==
    /\ kind = "none"
    /\ heap = <<>>
    /\ lastOp = "none"
    /\ lastArg = <<>>
    /\ result = ReturnedNone
    /\ swaps = 0
    /\ sinks = 0
    /\ iterations = <<>>
    /\ input = <<>>
    /\ popped = <<>>
    /\ size0 = 0
    /\ pushes = 0
    /\ pops = 0
    /\ emptyPops = 0
    /\ stored = EmptyBag
    /\ da_n = 0
    /\ da_capacity = 1
    /\ da_array = DynamicArray_make_array(1)
    /\ da_op = <<"init">>
    /\ da_result = ReturnedNone
    /\ da_resized = FALSE
    /\ model = <<>>

(***************************************************************************)
(* The public operations.  Each action is one whole call.                  *)
(***************************************************************************)
\* __init__(array): self.heap = self._heapify(array)
Construct(cls, h, array) ==
    /\ kind = "none"
    /\ kind' = cls
    /\ heap' = h.array
    /\ lastOp' = "init"
    /\ lastArg' = <<array>>
    /\ result' = ReturnedNone
    /\ swaps' = h.swaps
    /\ sinks' = h.calls
    /\ iterations' = h.log
    /\ input' = array
    /\ size0' = Len(array)
    /\ stored' = BagOf(array)
    /\ UNCHANGED <<popped, pushes, pops, emptyPops>>
    /\ UNCHANGED daVars

MinHeap_init(array) == Construct("MinHeap", MinHeap_heapify(array), array)

MaxHeap_init(array) == Construct("MaxHeap", MaxHeap_heapify(array), array)

\* peak(): return self.heap[0]; indexing an empty list raises IndexError
Peak(cls) ==
    /\ kind = cls
    /\ lastOp' = "peak"
    /\ lastArg' = <<>>
    /\ result' = IF Len(heap) = 0 THEN Raised("IndexError") ELSE Returned(At(heap, 0))
    /\ swaps' = 0
    /\ sinks' = 0
    /\ iterations' = <<>>
    /\ UNCHANGED <<kind, heap, input, popped, size0, pushes, pops, emptyPops, stored>>
    /\ UNCHANGED daVars

MinHeap_peak == Peak("MinHeap")

MaxHeap_peak == Peak("MaxHeap")

\* push(element): append, then _sink_up from the last index
Push(cls, s, element) ==
    /\ kind = cls
    /\ Len(heap) < MaxLen
    /\ pushes < MaxPush
    /\ heap' = s.array
    /\ lastOp' = "push"
    /\ lastArg' = <<element>>
    /\ result' = ReturnedNone
    /\ swaps' = s.swaps
    /\ sinks' = 0
    /\ iterations' = s.log
    /\ pushes' = pushes + 1
    /\ input' = <<>>
    /\ popped' = <<>>
    /\ stored' = stored (+) SetToBag({element})
    /\ UNCHANGED <<kind, size0, pops, emptyPops>>
    /\ UNCHANGED daVars

\* the body of push on the list array: the record after append and _sink_up
MinHeap_push_of(array, element) ==
    MinHeap_sink_up(Fresh(Append(array, element)), Len(array))

MinHeap_push(element) == Push("MinHeap", MinHeap_push_of(heap, element), element)

\* the body of push on the list array: the record after append and _sink_up
MaxHeap_push_of(array, element) ==
    MaxHeap_sink_up(Fresh(Append(array, element)), Len(array))

MaxHeap_push(element) == Push("MaxHeap", MaxHeap_push_of(heap, element), element)

\* pop() on a non-empty heap: swap root and last, list.pop(), _sink_down from the root
PopNonEmpty(cls, s, element_to_remove) ==
    /\ kind = cls
    /\ Len(heap) > 0
    /\ heap' = s.array
    /\ lastOp' = "pop"
    /\ lastArg' = <<>>
    /\ result' = Returned(element_to_remove)
    /\ swaps' = s.swaps
    /\ sinks' = 1
    /\ iterations' = s.log
    /\ pops' = pops + 1
    /\ popped' = IF pushes = 0 THEN Append(popped, element_to_remove) ELSE popped
    /\ stored' = stored (-) SetToBag({element_to_remove})
    /\ UNCHANGED <<kind, input, size0, pushes, emptyPops>>
    /\ UNCHANGED daVars

\* variant: no "if self.heap" guard, indexing the empty list raises IndexError
PopEmpty_unguarded(cls) ==
    /\ kind = cls
    /\ Len(heap) = 0
    /\ emptyPops < MaxEmptyPop
    /\ lastOp' = "pop"
    /\ lastArg' = <<>>
    /\ result' = Raised("IndexError")
    /\ swaps' = 0
    /\ sinks' = 0
    /\ iterations' = <<>>
    /\ pops' = pops + 1
    /\ emptyPops' = emptyPops + 1
    /\ UNCHANGED <<kind, heap, input, popped, size0, pushes, stored>>
    /\ UNCHANGED daVars

\* pop() on an empty heap: return -1
PopEmpty(cls) ==
    /\ kind = cls
    /\ Len(heap) = 0
    /\ emptyPops < MaxEmptyPop
    /\ lastOp' = "pop"
    /\ lastArg' = <<>>
    /\ result' = Returned(-1)
    /\ swaps' = 0
    /\ sinks' = 0
    /\ iterations' = <<>>
    /\ pops' = pops + 1
    /\ emptyPops' = emptyPops + 1
    /\ UNCHANGED <<kind, heap, input, popped, size0, pushes, stored>>
    /\ UNCHANGED daVars

\* variant: the root and the last element are not swapped before list.pop()
MinHeap_pop_no_swap ==
    LET element_to_remove == At(heap, Len(heap) - 1)
        rest == DropLast(heap)
    IN  \/ PopNonEmpty("MinHeap",
                       MinHeap_sink_down(Fresh(rest), 0, Len(rest) - 1),
                       element_to_remove)
        \/ PopEmpty("MinHeap")

\* the "if self.heap" branch of pop on the list array:
\* [s, element_to_remove], s the record after _sink_down
MinHeap_pop_of(array) ==
    LET swapped == swap_element(array, 0, Len(array) - 1)
        element_to_remove == At(swapped, Len(swapped) - 1)
        rest == DropLast(swapped)
    IN  [s |-> MinHeap_sink_down(Fresh(rest), 0, Len(rest) - 1),
         element_to_remove |-> element_to_remove]

MinHeap_pop ==
    \/ PopNonEmpty("MinHeap", MinHeap_pop_of(heap).s, MinHeap_pop_of(heap).element_to_remove)
    \/ PopEmpty("MinHeap")

\* variant: the last slot is read (self.max_heap[-1]) but not removed
MaxHeap_pop_no_remove ==
    LET swapped == swap_element(heap, 0, Len(heap) - 1)
        element_to_remove == At(swapped, Len(swapped) - 1)
    IN  \/ PopNonEmpty("MaxHeap",
                       MaxHeap_sink_down(Fresh(swapped), 0, Len(swapped) - 2),
                       element_to_remove)
        \/ PopEmpty("MaxHeap")

\* the "if self.heap" branch of pop on the list array:
\* [s, element_to_remove], s the record after _sink_down
MaxHeap_pop_of(array) ==
    LET swapped == swap_element(array, 0, Len(array) - 1)
        element_to_remove == At(swapped, Len(swapped) - 1)
        rest == DropLast(swapped)
    IN  [s |-> MaxHeap_sink_down(Fresh(rest), 0, Len(rest) - 1),
         element_to_remove |-> element_to_remove]

MaxHeap_pop ==
    \/ PopNonEmpty("MaxHeap", MaxHeap_pop_of(heap).s, MaxHeap_pop_of(heap).element_to_remove)
    \/ PopEmpty("MaxHeap")

Next ==
    \/ \E array \in Inputs : MinHeap_init(array)
    \/ \E array \in Inputs : MaxHeap_init(array)
    \/ MinHeap_peak
    \/ MaxHeap_peak
    \/ \E element \in Values : MinHeap_push(element)
    \/ \E element \in Values : MaxHeap_push(element)
    \/ MinHeap_pop
    \/ MaxHeap_pop

Spec == Init /\ [][Next]_vars

(***************************************************************************)
(* The DynamicArray's operations.  A call that raises leaves the abstract  *)
(* list alone.                                                             *)
(***************************************************************************)
Self == [n |-> da_n, capacity |-> da_capacity, array |-> da_array]

Call(op, out, list) ==
    /\ da_n' = out.self.n
    /\ da_capacity' = out.self.capacity
    /\ da_array' = out.self.array
    /\ da_op' = op
    /\ da_result' = out.result
    /\ da_resized' = out.resized
    /\ model' = IF out.result.exc = "" THEN list ELSE model
    /\ UNCHANGED heapVars

insert_at(element, index) ==
    /\ da_n < MaxArrayLen
    /\ Call(<<"insert_at", element, index>>,
            DynamicArray_insert_at(Self, element, index),
            ListInsert(model, index, element))

append(element) ==
    /\ da_n < MaxArrayLen
    /\ Call(<<"append", element>>,
            DynamicArray_append(Self, element),
            Append(model, element))

remove_at(index) ==
    Call(<<"remove_at", index>>,
         DynamicArray_remove_at(Self, index),
         ListRemove(model, index))

delete ==
    Call(<<"delete">>,
         DynamicArray_delete(Self),
         SubSeq(model, 1, Len(model) - 1))

getitem(index) ==
    Call(<<"getitem", index>>,
         [self |-> Self, result |-> DynamicArray_getitem(Self, index), resized |-> FALSE],
         model)

NextDA ==
    \/ \E element \in Objects : \E index \in -1..(da_n + 1) : insert_at(element, index)
    \/ \E element \in Objects : append(element)
    \/ \E index \in -1..da_n : remove_at(index)
    \/ delete
    \/ \E index \in -1..da_n : getitem(index)

SpecDA == Init /\ [][NextDA]_vars

(***************************************************************************)
(* Vocabulary of the properties.                                           *)
(***************************************************************************)
Parent(i) == (i - 1) \div 2

\* the heap property of a list, for each order
IsMinHeap(array) ==
    \A i \in 1..(Len(array) - 1) : At(array, Parent(i)) <= At(array, i)

IsMaxHeap(array) ==
    \A i \in 1..(Len(array) - 1) : At(array, Parent(i)) >= At(array, i)

Elements(array) == {array[i] : i \in 1..Len(array)}

IsMinimumOf(v, array) == v \in Elements(array) /\ \A w \in Elements(array) : v <= w

IsMaximumOf(v, array) == v \in Elements(array) /\ \A w \in Elements(array) : v >= w

Occurrences(array, v) == Cardinality({i \in 1..Len(array) : array[i] = v})

IsPermutationOf(a, b) ==
    /\ Len(a) = Len(b)
    /\ \A v \in Elements(a) \cup Elements(b) : Occurrences(a, v) = Occurrences(b, v)

NonDecreasing(array) ==
    \A i \in 1..Len(array) : \A j \in i..Len(array) : array[i] <= array[j]

NonIncreasing(array) ==
    \A i \in 1..Len(array) : \A j \in i..Len(array) : array[i] >= array[j]

\* the last call was a pop() that found the heap non-empty / empty
PoppedNonEmpty == lastOp = "pop" /\ sinks = 1
PoppedEmpty == lastOp = "pop" /\ sinks = 0

(***************************************************************************)
(* C1.  After construction and after every push and pop, the storage       *)
(* satisfies the heap property at every non-root index: parent <= child    *)
(* for MinHeap, parent >= child for MaxHeap.                               *)
(***************************************************************************)
C1_HeapProperty ==
    /\ kind = "MinHeap" => IsMinHeap(heap)
    /\ kind = "MaxHeap" => IsMaxHeap(heap)

C1_Witness ==
    /\ kind = "MaxHeap"
    /\ PoppedNonEmpty
    /\ swaps >= 1
    /\ Len(heap) >= 3
    /\ pushes >= 1

(***************************************************************************)
(* C2.  Popping a freshly built heap until it is empty returns a sorted    *)
(* sequence (non-decreasing for MinHeap, non-increasing for MaxHeap) that  *)
(* is a permutation of the constructor's input.                            *)
(***************************************************************************)
C2_DrainSorted ==
    (kind # "none" /\ pushes = 0 /\ heap = <<>>) =>
        /\ IsPermutationOf(popped, input)
        /\ kind = "MinHeap" => NonDecreasing(popped)
        /\ kind = "MaxHeap" => NonIncreasing(popped)

C2_Witness ==
    /\ kind = "MinHeap"
    /\ pushes = 0
    /\ heap = <<>>
    /\ input = <<12, 5, 11, 5>>
    /\ popped = <<5, 5, 11, 12>>

(***************************************************************************)
(* C3.  pop() on a non-empty heap returns the element that was at index 0  *)
(* before the call, that element is the minimum (MinHeap) or maximum       *)
(* (MaxHeap) of the elements stored before the call, and the storage       *)
(* becomes one element shorter.                                            *)
(***************************************************************************)
C3_PopStep ==
    (lastOp' = "pop" /\ Len(heap) > 0) =>
        /\ result' = Returned(At(heap, 0))
        /\ kind = "MinHeap" => IsMinimumOf(result'.val[1], heap)
        /\ kind = "MaxHeap" => IsMaximumOf(result'.val[1], heap)
        /\ Len(heap') = Len(heap) - 1

C3_PopReturnsRoot == [][C3_PopStep]_vars

C3_Witness ==
    /\ kind = "MinHeap"
    /\ PoppedNonEmpty
    /\ result = Returned(10)
    /\ Len(heap) = 3
    /\ swaps = 1

(***************************************************************************)
(* C4.  Starting from an empty heap, the number of stored elements equals  *)
(* the number of push calls minus the number of pop calls that found the   *)
(* heap non-empty.                                                         *)
(***************************************************************************)
C4_SizeAccounting ==
    (kind # "none" /\ size0 = 0) => Len(heap) = pushes - (pops - emptyPops)

C4_Witness ==
    /\ kind # "none"
    /\ size0 = 0
    /\ pushes = 2
    /\ pops = 2
    /\ emptyPops = 1
    /\ Len(heap) = 1

\* C4 as stated: with k push calls and j <= k pop calls the size is k - j.
C4_AsStated ==
    (kind # "none" /\ size0 = 0 /\ pops <= pushes) => Len(heap) = pushes - pops

(***************************************************************************)
(* C5.  peak() and pop() on a heap with zero elements signal an error and  *)
(* return no value.                                                        *)
(***************************************************************************)
C5_EmptySignalsError ==
    ((lastOp = "peak" /\ heap = <<>>) \/ PoppedEmpty) =>
        result.exc # "" /\ result.val = <<>>

(***************************************************************************)
(* C6.  peak() on a non-empty heap returns the minimum (MinHeap) or        *)
(* maximum (MaxHeap) of the stored elements and leaves the storage         *)
(* unchanged.                                                              *)
(***************************************************************************)
C6_PeakStep ==
    (lastOp' = "peak" /\ Len(heap) > 0) =>
        /\ result'.exc = ""
        /\ Len(result'.val) = 1
        /\ kind = "MinHeap" => IsMinimumOf(result'.val[1], heap)
        /\ kind = "MaxHeap" => IsMaximumOf(result'.val[1], heap)
        /\ heap' = heap

C6_PeakReturnsExtreme == [][C6_PeakStep]_vars

C6_Witness ==
    /\ kind = "MaxHeap"
    /\ lastOp = "peak"
    /\ result = Returned(12)
    /\ Len(heap) = 4
    /\ pushes = 1
    /\ pops = 1

(***************************************************************************)
(* C7.  Constructing MaxHeap from [12,10,5,11] gives storage [12,11,5,10]  *)
(* and constructing MinHeap from it gives [5,10,12,11]; heapify sifts down *)
(* once for each index from (n-2)//2 down to 0.                            *)
(***************************************************************************)
C7_HeapifyLayout ==
    (lastOp = "init" /\ input = <<12, 10, 5, 11>>) =>
        /\ kind = "MaxHeap" => heap = <<12, 11, 5, 10>>
        /\ kind = "MinHeap" => heap = <<5, 10, 12, 11>>
        /\ sinks = 2

C7_Witness ==
    /\ lastOp = "init"
    /\ kind = "MaxHeap"
    /\ input = <<12, 10, 5, 11>>
    /\ swaps = 1

(***************************************************************************)
(* C8.  On a MaxHeap: from [12,11,5,10], push(100) yields                  *)
(* [100,12,5,10,11]; from [100,12,5,10,11], pop() returns 100 and leaves   *)
(* [12,11,5,10]; from there push(5) yields [12,11,5,10,5]; and a pushed    *)
(* element equal to its parent is not swapped upward.                      *)
(***************************************************************************)
C8_TraceStep ==
    kind = "MaxHeap" =>
        /\ (heap = <<12, 11, 5, 10>> /\ lastOp' = "push" /\ lastArg' = <<100>>) =>
               heap' = <<100, 12, 5, 10, 11>>
        /\ (heap = <<100, 12, 5, 10, 11>> /\ lastOp' = "pop") =>
               result' = Returned(100) /\ heap' = <<12, 11, 5, 10>>
        /\ (heap = <<12, 11, 5, 10>> /\ lastOp' = "push" /\ lastArg' = <<5>>) =>
               heap' = <<12, 11, 5, 10, 5>>
        /\ (lastOp' = "push" /\ Len(heap) > 0
              /\ lastArg' = <<At(heap, Parent(Len(heap)))>>) =>
               heap' = Append(heap, lastArg'[1]) /\ swaps' = 0

C8_MaxHeapTrace == [][C8_TraceStep]_vars

C8_Witness ==
    /\ kind = "MaxHeap"
    /\ size0 = 4
    /\ pushes = 2
    /\ pops = 1
    /\ lastOp = "push"
    /\ lastArg = <<5>>
    /\ heap = <<12, 11, 5, 10, 5>>

(***************************************************************************)
(* C9.  Heapify is a no-op on valid heaps: built over an array that        *)
(* already satisfies the heap property (equal parent and child included),  *)
(* it makes no swap and returns the array unchanged; heapifying the result *)
(* of heapify again changes nothing.                                       *)
(***************************************************************************)
C9_HeapifyIdempotent ==
    lastOp = "init" =>
        /\ (kind = "MinHeap" /\ IsMinHeap(input)) => (heap = input /\ swaps = 0)
        /\ (kind = "MaxHeap" /\ IsMaxHeap(input)) => (heap = input /\ swaps = 0)
        /\ kind = "MinHeap" =>
               MinHeap_heapify(heap).array = heap /\ MinHeap_heapify(heap).swaps = 0
        /\ kind = "MaxHeap" =>
               MaxHeap_heapify(heap).array = heap /\ MaxHeap_heapify(heap).swaps = 0

C9_Witness ==
    /\ lastOp = "init"
    /\ kind = "MinHeap"
    /\ input = <<5, 5, 10, 5>>
    /\ heap = input


(***************************************************************************)
(* C10.  DynamicArray refines an abstract list: after any sequence of      *)
(* successful insert_at, append, remove_at and delete calls, len(array)    *)
(* and array[k] for every 0 <= k < len are the length and the k-th element *)
(* of the abstract list the same operations were applied to, across        *)
(* capacity-doubling resizes.                                              *)
(***************************************************************************)
C10_RefinesList ==
    /\ DynamicArray_len(Self) = Len(model)
    /\ \A k \in 0..(Len(model) - 1) : DynamicArray_getitem(Self, k) = Returned(At(model, k))

C10_Witness ==
    /\ da_op = <<"insert_at", "c", 1>>
    /\ da_resized
    /\ da_capacity = 8
    /\ model = <<"a", "c", "b", "a", "b">>

(***************************************************************************)
(* C11.  DynamicArray capacity policy: always 0 <= _n <= _capacity and     *)
(* _capacity is a power of two, 1 at first; _capacity doubles exactly in   *)
(* the steps where an insert_at or append is accepted while                *)
(* _n = _capacity, and no other step (remove_at, delete, a failed call)    *)
(* changes it, so it never decreases.                                      *)
(***************************************************************************)
IsPowerOfTwo(c) == \E k \in 0..c : 2 ^ k = c

C11_Bounds ==
    /\ 0 <= da_n
    /\ da_n <= da_capacity
    /\ IsPowerOfTwo(da_capacity)

C11_Step ==
    LET accepted == /\ da_op'[1] \in {"insert_at", "append"}
                    /\ da_result'.exc = ""
                    /\ da_n = da_capacity
    IN  /\ accepted => da_capacity' = 2 * da_capacity
        /\ ~accepted => da_capacity' = da_capacity

C11_CapacityPolicy == da_capacity = 1 /\ []C11_Bounds /\ [][C11_Step]_vars

C11_Witness ==
    /\ da_op = <<"remove_at", 0>>
    /\ da_result.exc = ""
    /\ da_n = 1
    /\ da_capacity = 8

(***************************************************************************)
(* C18.  DynamicArray rejects out-of-range indices without changing state: *)
(* insert_at with index < 0 or index > _n, remove_at and __getitem__ with  *)
(* index < 0 or index >= _n, and delete() on an empty array raise          *)
(* IndexError and leave _n, _capacity and every slot unchanged; a rejected *)
(* insert does not resize.                                                 *)
(***************************************************************************)
C18_Step ==
    LET name == da_op'[1]
        rejected ==
            \/ name = "insert_at" /\ (da_op'[3] < 0 \/ da_op'[3] > da_n)
            \/ name \in {"remove_at", "getitem"} /\ (da_op'[2] < 0 \/ da_op'[2] >= da_n)
            \/ name = "delete" /\ da_n = 0
    IN  rejected =>
            /\ da_result' = Raised("IndexError")
            /\ da_n' = da_n
            /\ da_capacity' = da_capacity
            /\ da_array' = da_array
            /\ ~da_resized'

C18_RejectsOutOfRange == [][C18_Step]_vars

C18_Witness ==
    /\ da_op = <<"insert_at", "b", 3>>
    /\ da_result = Raised("IndexError")
    /\ da_n = 2
    /\ da_capacity = 2
    /\ model = <<"a", "c">>

(***************************************************************************)
(* C17.  Constructing a heap from an input of length n < 2 performs no     *)
(* sift-down and no swap: for n = 0 the heap is empty and for n = 1 the    *)
(* storage is the single input element.                                    *)
(***************************************************************************)
C17_ShortInputUntouched ==
    (lastOp = "init" /\ Len(input) < 2) =>
        /\ sinks = 0
        /\ swaps = 0
        /\ heap = input

C17_Witness ==
    /\ lastOp = "init"
    /\ kind = "MinHeap"
    /\ input = <<12>>
    /\ heap = <<12>>

(***************************************************************************)
(* C13.  pop() on an empty heap returns the sentinel -1 without raising    *)
(* and mutates nothing: the storage is still empty afterwards, and a       *)
(* following push behaves as on a freshly constructed empty heap.          *)
(***************************************************************************)
C13_Step ==
    /\ (lastOp' = "pop" /\ heap = <<>>) =>
           /\ result' = Returned(-1)
           /\ heap' = <<>>
           /\ kind' = kind
    /\ (PoppedEmpty /\ lastOp' = "push") =>
           /\ heap' = lastArg'
           /\ swaps' = 0

C13_EmptyPopSentinel == [][C13_Step]_vars

C13_Witness ==
    /\ kind = "MaxHeap"
    /\ size0 = 0
    /\ emptyPops = 1
    /\ pops = 1
    /\ pushes = 1
    /\ lastOp = "push"
    /\ heap = <<11>>

(***************************************************************************)
(* C12.  Multiset conservation: after any sequence of construction, push   *)
(* and pop calls, the multiset of stored elements is the multiset of the   *)
(* initial sequence plus the pushed elements minus the elements returned   *)
(* by pops on a non-empty heap; the sift routines only permute.            *)
(***************************************************************************)
C12_MultisetConserved ==
    /\ BagOf(heap) = stored
    /\ BagCardinality(stored) = Len(heap)

C12_Witness ==
    /\ kind = "MinHeap"
    /\ size0 = 4
    /\ pushes = 2
    /\ pops = 2
    /\ emptyPops = 0
    /\ lastOp = "pop"
    /\ swaps = 2
    /\ heap = <<5, 10, 5, 12>>

(***************************************************************************)
(* C15.  Min/max symmetry: MaxHeap run on the element-wise negated inputs  *)
(* has, after each step, the element-wise negation of MinHeap's storage,   *)
(* and each of its non-empty pops returns the negation of MinHeap's.       *)
(* Checked step by step: whenever a MinHeap object takes a step from       *)
(* storage h to h2, MaxHeap's code takes the negation of h (of the         *)
(* constructor's array, for __init__) to the negation of h2.               *)
(***************************************************************************)
Negated(array) == [i \in 1..Len(array) |-> 0 - array[i]]

C15_Step ==
    kind' = "MinHeap" =>
        /\ lastOp' = "init" =>
               MaxHeap_heapify(Negated(lastArg'[1])).array = Negated(heap')
        /\ lastOp' = "push" =>
               MaxHeap_push_of(Negated(heap), 0 - lastArg'[1]).array = Negated(heap')
        /\ (lastOp' = "pop" /\ heap # <<>>) =>
               /\ MaxHeap_pop_of(Negated(heap)).s.array = Negated(heap')
               /\ Returned(0 - MaxHeap_pop_of(Negated(heap)).element_to_remove) = result'

C15_MinMaxSymmetry == [][C15_Step]_vars

C15_Witness ==
    /\ kind = "MinHeap"
    /\ PoppedNonEmpty
    /\ result = Returned(5)
    /\ swaps = 2
    /\ heap = <<10, 11, 10, 12>>

(***************************************************************************)
(* C14.  Index safety of the sift routines: during construction, push and  *)
(* pop, every list access made by _sink_down and _sink_up uses an index in *)
(* 0..len(array)-1; the right child 2i+2 is read only when                 *)
(* 2i+1 < last_index; and the parent index -1 computed at the root is      *)
(* never used to read the list.                                            *)
(***************************************************************************)
C14_IndexSafety ==
    \A i \in 1..Len(iterations) :
        LET e == iterations[i]
        IN  /\ e.len = Len(heap)
            /\ e.reads \subseteq 0..(e.len - 1)
            /\ (e.fn = "sink_down" /\ e.right # -1) =>
                   (e.right = 2 * e.curr + 2 /\ 2 * e.curr + 1 < e.last)
            /\ (e.fn = "sink_up" /\ e.parent = -1) => e.reads = {}

\* a pop whose _sink_down met a lone left child at the end of the list
C14_Witness ==
    /\ kind = "MinHeap"
    /\ PoppedNonEmpty
    /\ Len(heap) = 2
    /\ Len(iterations) = 1
    /\ iterations[1].right = -1
    /\ iterations[1].reads = {0, 1}
    /\ iterations[1].swapped

(***************************************************************************)
(* C16.  Every construction, push and pop terminates: each iteration of    *)
(* the _sink_up loop strictly decreases curr_index and the loop stops at   *)
(* the root or when the parent already satisfies the order; each iteration *)
(* of the _sink_down loop either breaks or strictly increases curr_index,  *)
(* and the loop stops once the left child index exceeds last_index.        *)
(* Stated on the iterations recorded for the call that returned last (a    *)
(* call that returned has terminated): within one _sink_up/_sink_down call *)
(* curr_index is strictly monotone and stays within the list, so a call    *)
(* runs at most len(array) iterations.                                     *)
(***************************************************************************)
LastOfCall(i) ==
    i = Len(iterations) \/ iterations[i + 1].call # iterations[i].call

InOrder(parent_value, child_value) ==
    IF kind = "MinHeap" THEN parent_value <= child_value ELSE parent_value >= child_value

C16_Terminates ==
    \A i \in 1..Len(iterations) :
        LET e == iterations[i]
        IN  /\ 0 <= e.curr /\ e.curr <= e.last
            /\ e.fn = "sink_up" =>
                   /\ e.swapped => (0 <= e.parent /\ e.parent < e.curr)
                   /\ LastOfCall(i) <=> ~e.swapped
                   /\ ~LastOfCall(i) => iterations[i + 1].curr = e.parent
                   /\ ~e.swapped =>
                          (e.curr = 0 \/ InOrder(At(heap, e.parent), At(heap, e.curr)))
            /\ e.fn = "sink_down" =>
                   /\ e.swapped => (e.curr < e.target /\ e.target <= e.last)
                   /\ ~e.swapped => LastOfCall(i)
                   /\ ~LastOfCall(i) =>
                          (iterations[i + 1].curr = e.target /\ e.curr < iterations[i + 1].curr)
                   /\ (LastOfCall(i) /\ e.swapped) => 2 * e.target + 1 > e.last

\* a push whose element rose from the last index to the root
C16_Witness ==
    /\ kind = "MaxHeap"
    /\ lastOp = "push"
    /\ Len(heap) = 5
    /\ Len(iterations) = 3
    /\ iterations[1].curr = 4
    /\ iterations[2].curr = 1
    /\ iterations[3].curr = 0
    /\ swaps = 2

=============================================================================
